---- MODULE Spec2Model ----
(***************************************************************************)
(* Virtual-staging session lifecycle of the Vista API.                     *)
(*                                                                         *)
(* Modelled: VirtualStagingService (service/virtual_staging_service.py),   *)
(* the Firestore repositories (repositories/base_repository.py), the       *)
(* image source selection of GeminiService.generate_image_from_image, the  *)
(* S3 blob store (service/aws_service.py) and the HTTP handlers of         *)
(* controllers/virtual_staging_controller.py.                              *)
(*                                                                         *)
(* One session id (a fresh uuid, used once), one property with two         *)
(* panoramic images, two request threads.  generate_staging is the only    *)
(* operation whose read and write are separated by a slow remote call, so  *)
(* it is the one split into steps; every other handler is one action.      *)
(*                                                                         *)
(* Encoding.  A blob is a number: 1 and 2 are the property's panoramas A   *)
(* and B, generated images get the next free number.  An S3 key is the     *)
(* blob's number (0 is None); a URL or path is a record [scheme, key].     *)
(***************************************************************************)
EXTENDS Integers, Sequences, FiniteSets, TLC

\* ------------------------------------------------------------- bounds
\* uploads to the blob store that may be made in one behaviour
MaxUploads == 2

\* ------------------------------------------------------------- values
Procs == {"t1", "t2"}

\* Optional[str] key fields hold a blob number, or NoKey for None
NoKey == 0

NoneUrl == [scheme |-> "none", key |-> 0]

\* aws_service.upload_bytes: file_url = https://<bucket>.s3.<region>.amazonaws.com/<key>
S3Url(k) == [scheme |-> "https", key |-> k]

\* a path in the local uploads/ folder: generated_<session>_v<n>.png
LocalPath(n) == [scheme |-> "file", key |-> n]

\* AWSService.get_s3_key_from_url: drop the host, keep the key
get_s3_key_from_url(u) == u.key

\* the startswith('http://') / startswith('https://') tests
IsHttpUrl(u) == u.scheme = "https"

\* the panoramic images of the property the session is created from
PropertyPanoramas == <<S3Url(1), S3Url(2)>>

\* ------------------------------------------------------- python calls
\* Parameter names of VirtualStagingService.generate_staging
generate_staging_params ==
    {"session_id", "staging_parameters", "custom_prompt", "mask_image_url",
     "user_message", "image_path_override"}

\* Parameter names of VirtualStagingService.create_staging_session_from_s3
create_staging_session_from_s3_params ==
    {"session_id", "property_id", "user_id", "room_name", "original_image_url",
     "staging_parameters"}

\* Parameter names of config.prompt_config.build_staging_prompt
build_staging_prompt_params ==
    {"role", "style", "furniture_style", "color_scheme", "specific_request"}

\* Declared fields of the pydantic model VirtualStaging
VirtualStagingFields ==
    {"session_id", "property_id", "panoramic_images", "current_image_index",
     "chat_history_id", "orignal_image_key", "original_image_url",
     "original_image_path", "current_image_key", "current_image_url",
     "current_image_path", "current_parameters", "current_prompt",
     "saved_versions", "version", "last_saved_version", "generation_history",
     "created_at", "updated_at", "completed_at", "error_message"}

\* Declared fields of the pydantic model RefinementResponse without a default
RefinementResponseRequired == {"image_url", "version", "updated_at", "prompt_used"}

\* A python call binds iff every keyword is a parameter and every parameter
\* without a default is given; otherwise it raises TypeError.
CallBinds(params, required, kwargs) == kwargs \subseteq params /\ required \subseteq kwargs

\* -------------------------------------------------------------- state
VARIABLES
    sess,       \* the document virtual_staging_sessions/<session_id>
    chat,       \* the document virtual_staging_chat_history/chat_<session_id>
    blobs,      \* blob numbers present in the S3 bucket
    files,      \* paths present in the local uploads/ folder
    uploaded,   \* number of objects upload_bytes has put in the bucket
    working_for,\* the panorama index the caller asked the stored working image
                \* for (0: none was named); kept beside the session, which
                \* does not record it
    created,    \* the session id has been handed out
    deleted,    \* delete_session has returned True for the session
    proc,       \* the request each thread is serving
    last,       \* the request that ended last, and what it returned
    generation_locks, \* _generation_locks: the session ids whose generation lock is held
    adding,     \* the chat-history repository call each thread is inside
    acked,      \* the message ids whose add call has returned True
    context     \* the last get_context_for_llm call and what it returned

vars ==
    <<sess, chat, blobs, files, uploaded, working_for, created, deleted, proc, last,
      generation_locks, adding, acked, context>>

\* what the chat-history repository calls keep of their own
chat_vars == <<adding, acked, context>>

\* what the session requests keep, the chat history document apart
session_vars ==
    <<sess, blobs, files, uploaded, working_for, created, deleted, proc, last,
      generation_locks>>

NoPrompt == [base |-> "none", format |-> FALSE, mask |-> FALSE]

\* VirtualStaging with every Optional field None and every list empty, and
\* no document behind it
NoSession ==
    [exists |-> FALSE,
     panoramic_images |-> <<>>,
     current_image_index |-> 0,
     chat_history_id |-> "none",
     orignal_image_key |-> NoKey,
     original_image_url |-> NoneUrl,
     original_image_path |-> NoneUrl,
     current_image_key |-> NoKey,
     current_image_url |-> NoneUrl,
     current_image_path |-> NoneUrl,
     current_parameters |-> "none",
     current_prompt |-> NoPrompt,
     saved_versions |-> <<>>,
     version |-> 0,
     last_saved_version |-> 0,
     generation_history |-> <<>>]

\* VirtualStagingChatHistory as created, and no document behind it
NoChat == [exists |-> FALSE, messages |-> <<>>, total_messages |-> 0, total_iterations |-> 1]

\* the blob number upload_bytes gives its next object (timestamp + uuid: fresh)
NextBlob == Len(PropertyPanoramas) + uploaded + 1

\* ---------------------------------------------------- document store
\* BaseRepository.get: the model, or None when the document does not exist
RepoGet(doc) == doc.exists

\* BaseRepository.create: document(doc_id).set(to_dict(model))
RepoCreate(model) == [model EXCEPT !.exists = TRUE]

\* an update that merges: the list fields of the stored document keep their
\* entries and take the model's after them
RepoUpdateMerging(doc, model) ==
    [f \in DOMAIN doc |->
        IF f = "exists" THEN TRUE
        ELSE IF f \notin DOMAIN model THEN doc[f]
        ELSE IF f \in {"generation_history", "saved_versions"} THEN doc[f] \o model[f]
        ELSE model[f]]

\* BaseRepository.update: document(doc_id).set(to_dict(model), merge=True).
\* to_dict names every field, so every stored field is overwritten, and a
\* document that does not exist is created.
RepoUpdate(doc, model) ==
    [f \in DOMAIN doc |->
        IF f = "exists" THEN TRUE
        ELSE IF f \in DOMAIN model THEN model[f] ELSE doc[f]]

\* ------------------------------------------------------- chat history
\* VirtualStagingChatHistory.add_message
add_message(history, message) ==
    [history EXCEPT !.messages = Append(@, message),
                    !.total_messages = Len(history.messages) + 1]

\* VirtualStagingChatHistoryRepository.add_message: get, append, update
RepoAddMessage(doc, role) ==
    IF ~RepoGet(doc) THEN doc ELSE RepoUpdate(doc, add_message(doc, role))

\* ----------------------------------------------------------- requests
NoArgs == [custom |-> FALSE, params |-> "none", mask |-> FALSE, um |-> FALSE,
           override |-> 0, index |-> 0]

\* a thread serving no request
IdleProc ==
    [op |-> "none", pc |-> "idle", args |-> NoArgs, snap |-> NoSession,
     snap_for |-> 0, params |-> "none", prompt |-> NoPrompt, new |-> NoKey,
     sent |-> NoneUrl]

\* no request has ended yet
\* log: what the failure path printed; again: the request before it was a
\* save too; sent: the image a refine handed to the Generation Client;
\* unsaved: the has_unsaved_changes a read reported
NoLast ==
    [op |-> "none", ret |-> "none", index |-> 0, view |-> <<>>, log |-> "none",
     again |-> FALSE, sent |-> NoneUrl, unsaved |-> FALSE]

\* a thread inside no chat-history repository call.  calls: the calls it has
\* begun; message: the VirtualStagingChatMessage it is adding; history: the
\* VirtualStagingChatHistory its add_message has read
NoCall ==
    [pc |-> "idle", calls |-> 0, message |-> [role |-> "none", message_id |-> <<>>],
     history |-> NoChat]

\* no get_context_for_llm call has been made yet.  of: the messages of the
\* history read; found: a string was returned, not None; lines: the
\* conversation lines of that string
NoContext ==
    [include_full_history |-> FALSE, last_n_messages |-> 0, of |-> <<>>,
     found |-> FALSE, lines |-> <<>>]

Free(p) == proc[p].pc = "idle"

Begin(o, a) == [IdleProc EXCEPT !.op = o, !.args = a]

\* the record of a request of kind o with arguments a that returned r
Ended(o, a, r) == [NoLast EXCEPT !.op = o, !.ret = r, !.index = a.index]

Init ==
    /\ sess = NoSession
    /\ chat = NoChat
    /\ blobs = {get_s3_key_from_url(PropertyPanoramas[i]) : i \in DOMAIN PropertyPanoramas}
    /\ files = {}
    /\ uploaded = 0
    /\ working_for = 0
    /\ created = FALSE
    /\ deleted = "no"
    /\ proc = [p \in Procs |-> IdleProc]
    /\ last = NoLast
    /\ generation_locks = {}
    /\ adding = [p \in Procs |-> NoCall]
    /\ acked = {}
    /\ context = NoContext

\* what the HTTP handler answers for what the service returned
HttpStatus(op, r) ==
    IF op \in {"http_generate", "http_save_change", "http_save_session_change"}
    THEN (IF r = "None" THEN "500" ELSE IF r \in {"saved", "response"} THEN "200" ELSE r)
    ELSE r

\* the request of thread p ends: pr is what it had come to, r what the service returns
Finish(p, pr, r) ==
    /\ proc' = [proc EXCEPT ![p] = IdleProc]
    /\ last' = Ended(pr.op, pr.args, HttpStatus(pr.op, r))

\* the request of thread p ends on a failure path that prints msg
FinishLogged(p, pr, r, msg) ==
    /\ proc' = [proc EXCEPT ![p] = IdleProc]
    /\ last' = [Ended(pr.op, pr.args, HttpStatus(pr.op, r)) EXCEPT !.log = msg]

\* upload slots left for one more request that may upload
UploadSlotFree ==
    uploaded + Cardinality({q \in Procs : proc[q].pc = "gen_call"}) < MaxUploads

\* ------------------------------------------------------------- create
\* VirtualStagingService.create_staging_session_from_s3 (the session the
\* VirtualStaging constructor builds from the arguments it is given)
NewSession(original_image_url) ==
    [NoSession EXCEPT !.chat_history_id = "chat",
                      !.orignal_image_key = get_s3_key_from_url(original_image_url),
                      !.original_image_url = original_image_url,
                      !.current_parameters = "default",
                      !.version = 0,
                      !.last_saved_version = 0]

\* a creation that goes on to store the session whatever became of the chat history
chat_history_missing_ignored(firestore) == FALSE

\* create_staging_session_from_s3 lines 75-85: create_chat_history raised or
\* returned nothing
chat_history_missing(firestore) == firestore = "chat_error"

\* create_staging_session_from_s3 for the image URL given and for what the
\* document store does: "ok", or an error on writing the chat history or
\* the session
create_staging_session_outcome(url, firestore) ==
    IF ~IsHttpUrl(url)
    THEN /\ last' = [Ended("create", NoArgs, "None") EXCEPT !.log = "Invalid S3 URL"]
         /\ UNCHANGED <<sess, chat, created>>
    ELSE IF chat_history_missing(firestore)
    THEN /\ last' = [Ended("create", NoArgs, "None") EXCEPT
                        !.log = "Error creating staging session"]
         /\ UNCHANGED <<sess, chat, created>>
    ELSE IF firestore = "session_error"
    THEN /\ chat' = RepoCreate(NoChat)
         /\ last' = [Ended("create", NoArgs, "None") EXCEPT
                        !.log = "Error creating staging session"]
         /\ UNCHANGED <<sess, created>>
    ELSE /\ chat' = IF firestore = "chat_error" THEN chat ELSE RepoCreate(NoChat)
         /\ sess' = RepoCreate(NewSession(url))
         /\ created' = TRUE
         /\ last' = Ended("create", NoArgs, "session")

create_staging_session_from_s3(p) ==
    /\ Free(p)
    /\ ~created
    /\ \E url \in {PropertyPanoramas[1], NoneUrl},
          firestore \in {"ok", "chat_error", "session_error"} :
         create_staging_session_outcome(url, firestore)
    /\ UNCHANGED <<chat_vars, generation_locks, blobs, files, uploaded, working_for, deleted, proc>>

\* ----------------------------------------------------------- generate
\* the keywords generate_staging and refine_staging pass to build_staging_prompt
StagingPromptKwargs == {"role", "style", "furniture_theme", "color_scheme", "specific_request"}

OverrideUrl(a) == IF a.override = 0 THEN NoneUrl ELSE PropertyPanoramas[a.override]

\* generate_staging up to the prompt: read the session, pick the image,
\* build the prompt.  "call": ready for Gemini; "None": the method returns None.
generate_staging_read(a, s) ==
    LET image_url == IF OverrideUrl(a) # NoneUrl THEN OverrideUrl(a)
                     ELSE IF s.current_image_url # NoneUrl THEN s.current_image_url
                     ELSE s.original_image_url
        params == IF a.params # "none" THEN a.params ELSE s.current_parameters
        ready(prompt) == [to |-> "call", params |-> params, prompt |-> prompt]
        none == [to |-> "None", params |-> "none", prompt |-> NoPrompt]
    IN  IF ~RepoGet(s) THEN none
        ELSE IF image_url = NoneUrl THEN none
        ELSE IF ~IsHttpUrl(image_url) /\ image_url \notin files THEN none
        ELSE IF a.custom
             THEN ready([base |-> "custom", format |-> FALSE, mask |-> a.mask])
        ELSE IF params # "none"
             THEN IF CallBinds(build_staging_prompt_params, {"role"}, StagingPromptKwargs)
                  THEN ready([base |-> "params", format |-> TRUE, mask |-> a.mask])
                  ELSE none
        ELSE none

\* thread p enters generate_staging for request pr (op and arguments set)
EnterGenerate(p, pr) ==
    LET r == generate_staging_read(pr.args, sess)
        got == [pr EXCEPT !.snap = sess, !.snap_for = IF RepoGet(sess) THEN working_for ELSE 0]
    IN IF r.to = "call"
       THEN /\ UploadSlotFree
            /\ proc' = [proc EXCEPT ![p] =
                   [got EXCEPT !.pc = "gen_call", !.params = r.params, !.prompt = r.prompt]]
            /\ last' = last
       ELSE Finish(p, got, "None")

\* the requests drawn: with a custom prompt the stored parameters are kept,
\* without one the caller may send parameters of its own
GenerateArgs ==
    {a \in [custom : BOOLEAN, params : {"none", "caller"}, mask : {FALSE}, um : BOOLEAN,
            override : 0..Len(PropertyPanoramas), index : {0}] :
        a.custom => a.params = "none"}

generate_staging_start(p) ==
    /\ Free(p)
    /\ \E a \in GenerateArgs : EnterGenerate(p, Begin("generate", a))
    /\ UNCHANGED <<chat_vars, generation_locks, sess, chat, blobs, files, uploaded, working_for, created, deleted>>

\* GeminiService.generate_image_from_image: the image it loads
image_to_use(session_given, session, image_path) ==
    IF session_given
    THEN IF session.current_image_path # NoneUrl THEN session.current_image_path
         ELSE IF session.current_image_url # NoneUrl THEN session.current_image_url
         ELSE IF session.original_image_path # NoneUrl THEN session.original_image_path
         ELSE session.original_image_url
    ELSE image_path

\* a generation that numbers its image: it takes the version + 1 of the file
\* name as the session's version
GeneratedSessionNumbered(s, key, params, prompt) ==
    [s EXCEPT !.current_image_path = NoneUrl,
              !.current_image_key = key,
              !.current_image_url = S3Url(key),
              !.current_parameters = params,
              !.current_prompt = prompt,
              !.version = @ + 1,
              !.generation_history =
                  Append(@, [image_key |-> key, saved |-> FALSE, type |-> "generate"])]

\* generate_staging: the session after "Store in session as unsaved working
\* version" and "Add to generation history"
GeneratedSession(s, key, params, prompt) ==
    [s EXCEPT !.current_image_path = NoneUrl,
              !.current_image_key = key,
              !.current_image_url = S3Url(key),
              !.current_parameters = params,
              !.current_prompt = prompt,
              !.generation_history =
                  Append(@, [image_key |-> key, saved |-> FALSE, type |-> "generate"])]

\* the panorama (counted from 1) a generation was requested for: the one the
\* override names, else the one the session's current image belongs to
requested_index(pr) ==
    IF pr.args.override # 0 THEN pr.args.override
    ELSE IF pr.snap.current_image_url # NoneUrl /\ pr.snap_for # 0 THEN pr.snap_for
    ELSE 1

\* a generation that stops at its upload check whatever the upload returned
generation_failed_before_upload(img, gemini, upload) ==
    img = NoneUrl \/ ~IsHttpUrl(img) \/ gemini # "image"

\* generate_staging lines 219-241: the Gemini call raised or returned no
\* image, or upload_bytes did not report success
generation_failed(img, gemini, upload) ==
    img = NoneUrl \/ ~IsHttpUrl(img) \/ gemini # "image" \/ upload = "ClientError"

\* what the failure path of generate_staging prints
generation_log(img, gemini, upload) ==
    IF img = NoneUrl \/ ~IsHttpUrl(img) \/ gemini = "error" THEN "Error generating staging"
    ELSE IF gemini = "no_image" THEN "Failed to generate image"
    ELSE "Failed to upload generated image to S3"

\* generate_staging from the Gemini call to repository.update_session, for
\* what Gemini and the blob store answer
generate_staging_outcome(p, gemini, upload) ==
    LET pr == proc[p]
        img == image_to_use(TRUE, pr.snap, OverrideUrl(pr.args))
        tried == [pr EXCEPT !.sent = img]
    IN IF generation_failed(img, gemini, upload)
       THEN /\ FinishLogged(p, tried, "None", generation_log(img, gemini, upload))
            /\ UNCHANGED <<sess, blobs, uploaded, working_for>>
       ELSE LET key == NextBlob
                ns == GeneratedSession(pr.snap, key, pr.params, pr.prompt)
            IN /\ blobs' = blobs \cup {key}
               /\ uploaded' = uploaded + 1
               /\ sess' = RepoUpdate(sess, ns)
               /\ working_for' = requested_index(pr)
               /\ proc' = [proc EXCEPT ![p] =
                      [tried EXCEPT !.pc = "gen_chat", !.snap = ns, !.new = key]]
               /\ last' = last

generate_staging_call(p) ==
    /\ proc[p].pc = "gen_call"
    /\ \E gemini \in {"image", "no_image", "error"}, upload \in {"ok", "ClientError"} :
         generate_staging_outcome(p, gemini, upload)
    /\ UNCHANGED <<chat_vars, generation_locks, chat, files, created, deleted>>

\* session.user_id, session.room_name: reading an attribute the model does
\* not declare raises AttributeError
HasAttr(fields, name) == name \in fields

\* generate_staging after update_session: the chat messages and the response
generate_staging_chat(p) ==
    /\ proc[p].pc = "gen_chat"
    /\ LET pr == proc[p]
           has_chat == pr.snap.chat_history_id # "none"
           \* add_user_message reads get_history(history_id).session_id
           raised == has_chat /\ pr.args.um /\ ~RepoGet(chat)
           c1 == IF has_chat /\ pr.args.um THEN RepoAddMessage(chat, "user") ELSE chat
           c2 == IF has_chat THEN RepoAddMessage(c1, "assistant") ELSE c1
       IN IF raised
          THEN /\ chat' = chat
               /\ Finish(p, pr, "None")
          ELSE /\ chat' = c2
               /\ Finish(p, pr, IF HasAttr(VirtualStagingFields, "user_id")
                                THEN "response" ELSE "None")
    /\ UNCHANGED <<chat_vars, generation_locks, sess, blobs, files, uploaded, working_for, created, deleted>>

\* --------------------------------------------------------------- save
SaveOps == {"save_change", "http_save_change", "http_save_session_change"}

\* the record of a save request that answered r
SaveEnded(op, r) == [Ended(op, NoArgs, r) EXCEPT !.again = last.op \in SaveOps]

\* a save that uploads whatever the session holds
has_working_image_unchecked(session) == TRUE

\* save_change line 331: the working image is a local file that exists
has_working_image(session) ==
    /\ session.current_image_path # NoneUrl
    /\ session.current_image_path \in files

\* save_change lines 349-379: the session after a version has been uploaded
SavedSession(s, key) ==
    LET new_version == s.version + 1
    IN [s EXCEPT !.saved_versions = Append(@, [version_number |-> new_version, image_key |-> key]),
                 !.version = new_version,
                 !.last_saved_version = new_version,
                 !.generation_history =
                     IF @ = <<>> THEN @ ELSE [@ EXCEPT ![Len(@)].saved = TRUE]]

\* VirtualStagingService.save_change, entered by request op
SaveChangeBody(op) ==
    IF ~RepoGet(sess) \/ ~has_working_image(sess)
    THEN /\ last' = SaveEnded(op, HttpStatus(op, "None"))
         /\ UNCHANGED <<sess, blobs, uploaded>>
    ELSE \E upload \in {"ok", "ClientError"} :
           IF upload = "ClientError" \/ uploaded >= MaxUploads
           THEN /\ last' = SaveEnded(op, HttpStatus(op, "None"))
                /\ UNCHANGED <<sess, blobs, uploaded>>
           ELSE /\ blobs' = blobs \cup {NextBlob}
                /\ uploaded' = uploaded + 1
                /\ sess' = RepoUpdate(sess, SavedSession(sess, NextBlob))
                /\ last' = SaveEnded(op, HttpStatus(op, "saved"))

save_change(p) ==
    /\ Free(p)
    /\ SaveChangeBody("save_change")
    /\ UNCHANGED <<chat_vars, generation_locks, chat, files, working_for, created, deleted, proc>>

\* controller POST /save-change
save_change_endpoint(p) ==
    /\ Free(p)
    /\ SaveChangeBody("http_save_change")
    /\ UNCHANGED <<chat_vars, generation_locks, chat, files, working_for, created, deleted, proc>>

\* a handler that asks the service whatever the session holds
has_current_image_url_unchecked(session) == TRUE

\* controller save_session_change line 535: there is a current working image
has_current_image_url(session) == session.current_image_url # NoneUrl

\* controller POST /session/<session_id>/save-change
save_session_change(p) ==
    /\ Free(p)
    /\ IF ~RepoGet(sess)
       THEN /\ last' = SaveEnded("http_save_session_change", "404")
            /\ UNCHANGED <<sess, blobs, uploaded>>
       ELSE IF ~has_current_image_url(sess)
       THEN /\ last' = SaveEnded("http_save_session_change", "400")
            /\ UNCHANGED <<sess, blobs, uploaded>>
       ELSE SaveChangeBody("http_save_session_change")
    /\ UNCHANGED <<chat_vars, generation_locks, chat, files, working_for, created, deleted, proc>>

\* ------------------------------------------------------------- revert
\* revert_change lines 420-424: the saved version with that number, if any
target_version(session, n) ==
    {i \in DOMAIN session.saved_versions : session.saved_versions[i].version_number = n}

RevertedSession(s, v) ==
    [s EXCEPT !.current_image_key = v.image_key,
              !.current_image_url = S3Url(v.image_key),
              !.generation_history =
                  Append(@, [image_key |-> v.image_key, saved |-> FALSE, type |-> "revert"])]

revert_change(p) ==
    /\ Free(p)
    /\ \E n \in 1..MaxUploads :
         IF ~RepoGet(sess)
         THEN /\ last' = Ended("revert_change", NoArgs, "None")
              /\ sess' = sess
         ELSE IF target_version(sess, n) = {}
         THEN /\ last' = Ended("revert_change", NoArgs, "not_reverted")
              /\ sess' = sess
         ELSE LET i == CHOOSE j \in target_version(sess, n) :
                           \A k \in target_version(sess, n) : j <= k
              IN /\ sess' = RepoUpdate(sess, RevertedSession(sess, sess.saved_versions[i]))
                 /\ last' = Ended("revert_change", NoArgs, "reverted")
    /\ UNCHANGED <<chat_vars, generation_locks, chat, blobs, files, uploaded, working_for, created, deleted, proc>>

\* ------------------------------------------------------------- refine
\* refine_staging lines 687-710: the session after a refinement is stored
RefinedSession(s, path, params) ==
    [s EXCEPT !.current_image_path = path,
              !.current_image_key = NoKey,
              !.current_image_url = NoneUrl,
              !.current_parameters = params,
              !.current_prompt = [base |-> "params", format |-> TRUE, mask |-> FALSE],
              !.generation_history =
                  Append(@, [image_key |-> NoKey, saved |-> FALSE, type |-> "refinement"])]

\* the keywords refine_staging gives the RefinementResponse constructor
RefinementResponseKwargs == {"image_url", "updated_at", "prompt_used"}

\* refine_staging for a request with or without a user message and for what
\* Gemini answers
refine_staging_outcome(um, gemini) ==
    LET img == image_to_use(TRUE, sess, NoneUrl)
        path == LocalPath(sess.version + 1)
        c1 == IF um THEN RepoAddMessage(chat, "user") ELSE chat
        c2 == RepoAddMessage(c1, "assistant")
        c3 == IF RepoGet(c2) THEN [c2 EXCEPT !.total_iterations = 2] ELSE c2
        called == /\ RepoGet(sess)
                  /\ CallBinds(build_staging_prompt_params, {"role"}, StagingPromptKwargs)
                  /\ img # NoneUrl
                  /\ IsHttpUrl(img)
    IN IF ~called \/ gemini # "image"
       THEN /\ last' = [Ended("refine_staging", NoArgs, "None") EXCEPT
                           !.sent = IF called THEN img ELSE NoneUrl]
            /\ UNCHANGED <<sess, chat, files>>
       ELSE /\ files' = files \cup {path}
            /\ sess' = RepoUpdate(sess, RefinedSession(sess, path, "caller"))
            /\ chat' = IF sess.chat_history_id = "none" \/ (um /\ ~RepoGet(chat))
                       THEN chat ELSE c3
            /\ last' = [Ended("refine_staging", NoArgs,
                           IF (um /\ ~RepoGet(chat)) \/
                              ~CallBinds(RefinementResponseRequired, RefinementResponseRequired,
                                         RefinementResponseKwargs)
                           THEN "None" ELSE "response") EXCEPT !.sent = img]

refine_staging(p) ==
    /\ Free(p)
    /\ \E um \in BOOLEAN, gemini \in {"image", "no_image", "error"} :
         refine_staging_outcome(um, gemini)
    /\ UNCHANGED <<chat_vars, generation_locks, blobs, uploaded, working_for, created, deleted, proc>>

\* ------------------------------------------------------------- delete
\* a delete that leaves the document in place
RepoDeleteKept(doc, absent) == doc

\* BaseRepository.delete: the document is gone
RepoDelete(doc, absent) == absent

\* delete_session lines 763-773: the blobs it asks the blob store to delete
DeleteTargets(session) ==
    ({session.saved_versions[i].image_key : i \in DOMAIN session.saved_versions}
        \cup {session.current_image_key, session.orignal_image_key}) \ {NoKey}

\* requests other than p that have started and not ended
InFlight(p) == {q \in Procs \ {p} : ~Free(q)}

delete_session(p) ==
    /\ Free(p)
    /\ IF RepoGet(sess)
       THEN \E chat_delete \in {"ok", "error"} :
              IF sess.chat_history_id # "none" /\ chat_delete = "error"
              THEN /\ last' = Ended("delete_session", NoArgs, "False")
                   /\ UNCHANGED <<sess, chat, blobs, working_for, deleted>>
              ELSE \E failed \in SUBSET DeleteTargets(sess) :
                     /\ chat' = IF sess.chat_history_id # "none"
                                THEN RepoDelete(chat, NoChat) ELSE chat
                     /\ blobs' = blobs \ (DeleteTargets(sess) \ failed)
                     /\ sess' = RepoDelete(sess, NoSession)
                     /\ working_for' = 0
                     /\ deleted' = IF InFlight(p) = {} THEN "quiet" ELSE "raced"
                     /\ last' = Ended("delete_session", NoArgs, "True")
       ELSE /\ sess' = RepoDelete(sess, NoSession)
            /\ last' = Ended("delete_session", NoArgs, "True")
            /\ UNCHANGED <<chat, blobs, working_for, deleted>>
    /\ UNCHANGED <<chat_vars, generation_locks, files, uploaded, created, proc>>

\* -------------------------------------------------------------- reads
get_session(p) ==
    /\ Free(p)
    /\ last' = Ended("get_session", NoArgs, IF RepoGet(sess) THEN "session" ELSE "None")
    /\ UNCHANGED <<chat_vars, generation_locks, sess, chat, blobs, files, uploaded, working_for, created, deleted, proc>>

\* VirtualStagingChatHistoryRepository.get_history for the session's chat_history_id
get_history(p) ==
    /\ Free(p)
    /\ last' = Ended("get_history", NoArgs, IF RepoGet(chat) THEN "history" ELSE "None")
    /\ UNCHANGED <<chat_vars, generation_locks, sess, chat, blobs, files, uploaded, working_for, created, deleted, proc>>

\* get_version_history lines 503-504, get_session_response lines 572-573:
\* there is a current image and it is not the image of a saved version
has_unsaved_changes(session) ==
    /\ session.current_image_url # NoneUrl
    /\ session.current_image_url \notin
           {S3Url(session.saved_versions[i].image_key) : i \in DOMAIN session.saved_versions}

\* VirtualStagingService.get_version_history
get_version_history(p) ==
    /\ Free(p)
    /\ last' = IF RepoGet(sess)
               THEN [Ended("get_version_history", NoArgs, "response")
                        EXCEPT !.unsaved = has_unsaved_changes(sess)]
               ELSE Ended("get_version_history", NoArgs, "None")
    /\ UNCHANGED <<chat_vars, generation_locks, sess, chat, blobs, files, uploaded, working_for, created, deleted, proc>>

\* get_session_response: the panorama list it returns comes from the property
SessionResponse(op) ==
    IF RepoGet(sess) /\ HasAttr(VirtualStagingFields, "user_id")
                     /\ HasAttr(VirtualStagingFields, "room_name")
    THEN [Ended(op, NoArgs, IF op = "http_get_session" THEN "200" ELSE "response")
             EXCEPT !.view = PropertyPanoramas, !.unsaved = has_unsaved_changes(sess)]
    ELSE Ended(op, NoArgs, IF op = "http_get_session" THEN "404" ELSE "None")

get_session_response(p) ==
    /\ Free(p)
    /\ last' = SessionResponse("get_session_response")
    /\ UNCHANGED <<chat_vars, generation_locks, sess, chat, blobs, files, uploaded, working_for, created, deleted, proc>>

\* controller GET /session/<session_id>
get_session_endpoint(p) ==
    /\ Free(p)
    /\ last' = SessionResponse("http_get_session")
    /\ UNCHANGED <<chat_vars, generation_locks, sess, chat, blobs, files, uploaded, working_for, created, deleted, proc>>

\* ------------------------------------------------- controller: create
\* the keywords the controller's create_session passes to the service
CreateSessionKwargs ==
    {"session_id", "property_id", "original_image_url", "panoramic_images", "staging_parameters"}

create_session(p) ==
    /\ Free(p)
    /\ ~created
    /\ IF CallBinds(create_staging_session_from_s3_params,
                    create_staging_session_from_s3_params, CreateSessionKwargs)
       THEN /\ chat' = RepoCreate(NoChat)
            /\ sess' = RepoCreate(NewSession(PropertyPanoramas[1]))
            /\ created' = TRUE
            /\ last' = Ended("http_create_session", NoArgs, "201")
       ELSE /\ last' = Ended("http_create_session", NoArgs, "500")
            /\ UNCHANGED <<sess, chat, created>>
    /\ UNCHANGED <<chat_vars, generation_locks, blobs, files, uploaded, working_for, deleted, proc>>

\* ----------------------------------------------- controller: generate
\* the keywords the controller's generate_staging passes to the service
GenerateStagingKwargs ==
    {"session_id", "image_index", "staging_parameters", "custom_prompt",
     "mask_image_url", "user_message"}

\* a range check that forgets the upper end
image_index_not_negative(image_index, n) == image_index >= 0

\* controller line 218: image_index names one of the property's panoramas
image_index_in_range(image_index, n) == image_index >= 0 /\ image_index < n

\* the requests drawn carry session_id, custom_prompt and image_index
HttpGenerateArgs ==
    [custom : {TRUE}, params : {"caller"}, mask : {FALSE}, um : {FALSE},
     override : {0}, index : -1..Len(PropertyPanoramas)]

\* a handler that takes the session's lock at the marked place and never
\* gives it back
acquire_and_keep(locks) == locks \cup {"session"}

\* controller lines 183-185, "Acquire lock for this session": no statement
\* follows the comment, the dictionary of locks is left as it is
acquire_generation_lock(locks) == locks

\* controller generate_staging lines 178-186: session_id is read and the
\* handler enters its try block (the place marked for taking the lock)
generate_staging_endpoint_enter(p) ==
    /\ Free(p)
    /\ proc' = [proc EXCEPT ![p] = [Begin("http_generate", NoArgs) EXCEPT !.pc = "http_gen"]]
    /\ generation_locks' = acquire_generation_lock(generation_locks)
    /\ UNCHANGED <<chat_vars, sess, chat, blobs, files, uploaded, working_for, created, deleted, last>>

\* controller generate_staging lines 187-270 for the form a: the form is read
\* and validated, the session and the property are looked up, the service is called
generate_staging_form(p, a) ==
    LET pr == [proc[p] EXCEPT !.args = a]
    IN IF ~a.custom THEN Finish(p, pr, "400")
       ELSE IF ~RepoGet(sess) THEN Finish(p, pr, "404")
       ELSE IF ~image_index_in_range(a.index, Len(PropertyPanoramas))
            THEN Finish(p, pr, "400")
       ELSE IF CallBinds(generate_staging_params, {"session_id"}, GenerateStagingKwargs)
            THEN EnterGenerate(p, pr)
            ELSE Finish(p, pr, "None")

generate_staging_endpoint(p) ==
    /\ proc[p].pc = "http_gen"
    /\ \E a \in HttpGenerateArgs : generate_staging_form(p, a)
    /\ UNCHANGED <<chat_vars, generation_locks, sess, chat, blobs, files, uploaded, working_for, created, deleted>>

Next ==
    \E p \in Procs :
        \/ create_staging_session_from_s3(p)
        \/ generate_staging_start(p)
        \/ generate_staging_call(p)
        \/ generate_staging_chat(p)
        \/ save_change(p)
        \/ save_change_endpoint(p)
        \/ save_session_change(p)
        \/ revert_change(p)
        \/ refine_staging(p)
        \/ delete_session(p)
        \/ get_session(p)
        \/ get_history(p)
        \/ get_session_response(p)
        \/ get_session_endpoint(p)
        \/ get_version_history(p)
        \/ create_session(p)
        \/ generate_staging_endpoint_enter(p)
        \/ generate_staging_endpoint(p)

Spec == Init /\ [][Next]_vars

\* ==================================================================
\* The chat-history repository, call by call
\* ==================================================================

\* the calls one thread makes, and the largest last_n_messages asked for
MaxCalls == 2

MaxLastN == 3

\* the message the next call of thread p builds (message_id is a fresh uuid)
NewMessage(p, role) == [role |-> role, message_id |-> <<p, adding[p].calls + 1>>]

\* the call of thread p ends
CallEnded(p) == [adding[p] EXCEPT !.pc = "idle", !.calls = @ + 1,
                                  !.message = NoCall.message, !.history = NoChat]

\* VirtualStagingChatHistoryRepository.add_user_message lines 122-128: the
\* message is built with get_history(history_id).session_id, which raises
\* AttributeError when there is no history
add_user_message(p) ==
    /\ adding[p].pc = "idle"
    /\ adding[p].calls < MaxCalls
    /\ adding' = [adding EXCEPT ![p] =
           IF RepoGet(chat)
           THEN [@ EXCEPT !.pc = "add_message", !.message = NewMessage(p, "user")]
           ELSE CallEnded(p)]
    /\ UNCHANGED <<session_vars, chat, acked, context>>

\* add_assistant_message lines 147-158: get_history, False when there is none
add_assistant_message(p) ==
    /\ adding[p].pc = "idle"
    /\ adding[p].calls < MaxCalls
    /\ adding' = [adding EXCEPT ![p] =
           IF RepoGet(chat)
           THEN [@ EXCEPT !.pc = "add_message", !.message = NewMessage(p, "assistant")]
           ELSE CallEnded(p)]
    /\ UNCHANGED <<session_vars, chat, acked, context>>

\* add_message lines 100-102: the history is read; False when there is none
add_message_get_history(p) ==
    /\ adding[p].pc = "add_message"
    /\ adding' = [adding EXCEPT ![p] =
           IF RepoGet(chat)
           THEN [@ EXCEPT !.pc = "update_history", !.history = chat]
           ELSE CallEnded(p)]
    /\ UNCHANGED <<session_vars, chat, acked, context>>

\* add_message lines 104-106: the message is appended to the copy read, the
\* copy is written back whole, and the call returns True
add_message_update_history(p) ==
    /\ adding[p].pc = "update_history"
    /\ chat' = RepoUpdate(chat, add_message(adding[p].history, adding[p].message))
    /\ acked' = acked \cup {adding[p].message.message_id}
    /\ adding' = [adding EXCEPT ![p] = CallEnded(p)]
    /\ UNCHANGED <<session_vars, context>>

\* Python's seq[start:]
slice_from(seq, start) ==
    LET n == Len(seq)
        lo == IF start < 0 THEN (IF n + start < 0 THEN 0 ELSE n + start)
              ELSE (IF start > n THEN n ELSE start)
    IN SubSeq(seq, lo + 1, n)

\* VirtualStagingChatHistory.get_context_for_llm lines 104-109: the lines it
\* renders under "Conversation History:", one "[role] content" per message
context_for_llm(history, include_full_history, last_n_messages) ==
    LET messages_to_include ==
            IF include_full_history THEN history.messages
            ELSE slice_from(history.messages, -last_n_messages)
    IN [i \in DOMAIN messages_to_include |-> messages_to_include[i].role]

\* VirtualStagingChatHistoryRepository.get_context_for_llm
get_context_for_llm(p) ==
    /\ adding[p].pc = "idle"
    /\ \E include_full_history \in BOOLEAN, last_n_messages \in 0..MaxLastN :
         context' =
             [include_full_history |-> include_full_history,
              last_n_messages |-> last_n_messages,
              of |-> IF RepoGet(chat) THEN chat.messages ELSE <<>>,
              found |-> RepoGet(chat),
              lines |-> IF RepoGet(chat)
                        THEN context_for_llm(chat, include_full_history, last_n_messages)
                        ELSE <<>>]
    /\ UNCHANGED <<session_vars, chat, adding, acked>>

\* a history that was created empty, or none at all
ChatInit ==
    /\ chat \in {NoChat, RepoCreate(NoChat)}
    /\ adding = [p \in Procs |-> NoCall]
    /\ acked = {}
    /\ context = NoContext
    /\ sess = NoSession
    /\ blobs = {get_s3_key_from_url(PropertyPanoramas[i]) : i \in DOMAIN PropertyPanoramas}
    /\ files = {}
    /\ uploaded = 0
    /\ working_for = 0
    /\ created = FALSE
    /\ deleted = "no"
    /\ proc = [p \in Procs |-> IdleProc]
    /\ last = NoLast
    /\ generation_locks = {}

ChatNext ==
    \E p \in Procs :
        \/ add_user_message(p)
        \/ add_assistant_message(p)
        \/ add_message_get_history(p)
        \/ add_message_update_history(p)
        \/ get_context_for_llm(p)

ChatSpec == ChatInit /\ [][ChatNext]_vars

\* ==================================================================
\* Properties
\* ==================================================================

SaveStep(p) == save_change(p) \/ save_change_endpoint(p) \/ save_session_change(p)

\* C1: after a generation requested for panorama i has been stored, the
\* stored session has panoramic_images[i] = current_image_urls[i] =
\* current_image_url, the URL of the new image.
C1_EagerOverwrite ==
    \A p \in Procs :
        (/\ proc[p].pc = "gen_chat"
         /\ proc[p].args.override # 0
         /\ RepoGet(sess)
         /\ sess.current_image_key = proc[p].new)
        => /\ sess.current_image_url = S3Url(proc[p].new)
           /\ "current_image_urls" \in VirtualStagingFields
           /\ proc[p].args.override \in DOMAIN sess.panoramic_images
           /\ sess.panoramic_images[proc[p].args.override] = sess.current_image_url

\* C2: of two generate requests for the session that overlap, the second is
\* turned away as busy: never are two of them inside the handler at once.
C2_SecondGenerateRejected ==
    Cardinality({p \in Procs : proc[p].op = "http_generate" /\ ~Free(p)}) <= 1

\* C3: a save on an existing session whose current_image_url is set succeeds.
C3_SaveEnabledFromDraft ==
    [][\A p \in Procs :
          (SaveStep(p) /\ RepoGet(sess) /\ sess.current_image_url # NoneUrl)
          => last'.ret \in {"saved", "200"}]_vars

\* C4: after a save on a session with a working image, the session records
\* no working image for the index any more and its last generation_history
\* entry has saved = true.
C4_SaveMarksHistory ==
    [][\A p \in Procs :
          (SaveStep(p) /\ RepoGet(sess) /\ sess.current_image_url # NoneUrl)
          => /\ RepoGet(sess')
             /\ sess'.generation_history # <<>>
             /\ sess'.generation_history[Len(sess'.generation_history)].saved]_vars

\* C5: a save on an existing session whose current_image_url is null fails
\* (None from the service, 500 from /save-change, 400 from
\* /session/<id>/save-change) and leaves the session document, the chat
\* history and the blob store as they were.
C5_SaveWithoutWorkingImage ==
    [][\A p \in Procs :
          (SaveStep(p) /\ RepoGet(sess) /\ sess.current_image_url = NoneUrl)
          => /\ last'.ret = (IF last'.op = "save_change" THEN "None"
                             ELSE IF last'.op = "http_save_change" THEN "500"
                             ELSE "400")
             /\ UNCHANGED <<sess, chat, blobs, uploaded>>]_vars

C5_Witness ==
    /\ last.op = "http_save_session_change"
    /\ last.ret = "400"
    /\ RepoGet(sess)
    /\ sess.current_image_url = NoneUrl

\* image_index outside what the session lists, or outside what the property lists
OutOfRange(i) ==
    \/ i < 0
    \/ i >= Len(sess.panoramic_images)
    \/ i >= Len(PropertyPanoramas)

\* C6: a generate request for an existing session whose image_index is out of
\* range ends with an error in the handler itself, so the Generation Client is
\* not called and nothing is uploaded or written; an index the property does
\* not have is answered 400.
C6_IndexOutOfRange ==
    [][\A p \in Procs : \A a \in HttpGenerateArgs :
          (/\ proc[p].pc = "http_gen"
           /\ generate_staging_form(p, a)
           /\ RepoGet(sess)
           /\ OutOfRange(a.index))
          => /\ proc'[p] = IdleProc
             /\ last'.op = "http_generate"
             /\ last'.ret \in {"400", "500"}
             /\ (a.index < 0 \/ a.index >= Len(PropertyPanoramas)) => last'.ret = "400"
             /\ UNCHANGED <<sess, chat, blobs, uploaded>>]_vars

C6_Witness ==
    /\ last.op = "http_generate"
    /\ last.index = Len(PropertyPanoramas)
    /\ last.ret = "400"
    /\ RepoGet(sess)

\* C7: the image sent to the Generation Client for a generation requested for
\* panorama i is the working image of i when there is one, else panorama i.
C7_SourceImage ==
    [][\A p \in Procs :
          (/\ proc[p].pc = "gen_call"
           /\ proc'[p].pc = "gen_chat"
           /\ proc[p].args.override # 0)
          => proc'[p].sent =
                 IF proc[p].snap.current_image_url # NoneUrl
                    /\ proc[p].snap_for = proc[p].args.override
                 THEN proc[p].snap.current_image_url
                 ELSE PropertyPanoramas[proc[p].args.override]]_vars

\* C8: reading back a session created for panoramas [A, B] after one stored
\* generation for index 1 returns the panorama list [A, B'].
C8_RoundTrip ==
    [][\A p \in Procs :
          (/\ get_session_response(p) \/ get_session_endpoint(p)
           /\ RepoGet(sess)
           /\ Len(sess.generation_history) = 1
           /\ working_for = 2
           /\ InFlight(p) = {})
          => last'.view = <<PropertyPanoramas[1], sess.current_image_url>>]_vars

HistoryKeys(s) == [i \in DOMAIN s.generation_history |-> s.generation_history[i].image_key]

IsPrefix(s, t) == Len(s) <= Len(t) /\ \A i \in DOMAIN s : s[i] = t[i]

\* C9: generation_history is append-only: while the session exists no step
\* removes or reorders an entry.
C9_HistoryAppendOnly ==
    [][(RepoGet(sess) /\ RepoGet(sess'))
          => IsPrefix(HistoryKeys(sess), HistoryKeys(sess'))]_vars

CreateStep(p) == create_staging_session_from_s3(p) \/ create_session(p)

\* C13: a creation stores a session with current_image_index 0, the
\* property's panorama URLs in order as panoramic_images, the first of them
\* as original_image_url and no working image, beside a new, empty chat history.
C13_CreatedSession ==
    [][\A p \in Procs :
          (CreateStep(p) /\ RepoGet(sess'))
          => /\ sess'.current_image_index = 0
             /\ sess'.original_image_url = PropertyPanoramas[1]
             /\ sess'.current_image_url = NoneUrl
             /\ sess'.current_image_key = NoKey
             /\ RepoGet(chat')
             /\ chat'.messages = <<>>
             /\ sess'.panoramic_images = PropertyPanoramas]_vars

\* C14: when the chat history cannot be created, the creation returns None
\* and no session document is stored.
C14_NoSessionWithoutChat ==
    [][\A p \in Procs : \A url \in {PropertyPanoramas[1], NoneUrl} :
          (/\ Free(p)
           /\ ~created
           /\ create_staging_session_outcome(url, "chat_error")
           /\ UNCHANGED <<blobs, files, uploaded, working_for, deleted, proc>>)
          => /\ last'.op = "create"
             /\ last'.ret = "None"
             /\ ~RepoGet(sess')
             /\ ~created']_vars

C14_Witness ==
    /\ last.op = "create"
    /\ last.ret = "None"
    /\ last.log = "Error creating staging session"
    /\ ~RepoGet(chat)
    /\ ~RepoGet(sess)

\* C15: whenever no request is in flight, the session document exists if and
\* only if its chat history document exists.
C15_SessionIffChat ==
    (\A p \in Procs : Free(p)) => (RepoGet(sess) <=> RepoGet(chat))

C17_DeleteBestEffort ==
    [][\A p \in Procs :
          (delete_session(p) /\ RepoGet(sess)) => ~RepoGet(sess')]_vars

\* a request of any kind for the session id served in this step
SessionRequestStep(p) ==
    \/ get_session(p) \/ get_session_response(p) \/ get_session_endpoint(p)
    \/ generate_staging_start(p) \/ generate_staging_endpoint(p)
    \/ SaveStep(p) \/ refine_staging(p) \/ delete_session(p)

\* C18: a request for a session id that has no stored session is answered
\* not-found or failure, and no document and no blob is created or changed.
C18_MissingSession ==
    [][\A p \in Procs :
          (SessionRequestStep(p) /\ ~RepoGet(sess))
          => /\ last'.ret \in {"None", "False", "404", "500"}
             /\ UNCHANGED <<sess, chat, blobs, uploaded>>]_vars

\* a refine request served in this step for which Gemini returns an image
RefineStep(p, um) ==
    /\ Free(p)
    /\ refine_staging_outcome(um, "image")
    /\ UNCHANGED <<chat_vars, generation_locks, blobs, uploaded, working_for, created, deleted, proc>>

\* C19: a refine for which the Generation Client returns an image has the
\* effects of a generate: current_image_url and current_image_key name the
\* new working image, one generation_history entry with saved = false is
\* appended, and one assistant message is appended to the chat history, after
\* the user message when one was supplied.
C19_RefineLikeGenerate ==
    [][\A p \in Procs : \A um \in BOOLEAN :
          (RefineStep(p, um) /\ RepoGet(sess) /\ RepoGet(chat))
          => /\ sess'.current_image_url # NoneUrl
             /\ sess'.current_image_url # sess.current_image_url
             /\ sess'.current_image_key = get_s3_key_from_url(sess'.current_image_url)
             /\ Len(sess'.generation_history) = Len(sess.generation_history) + 1
             /\ ~sess'.generation_history[Len(sess'.generation_history)].saved
             /\ chat'.messages =
                    chat.messages \o (IF um THEN <<"user">> ELSE <<>>) \o <<"assistant">>]_vars

\* C20: a refine sends to the Generation Client the session's latest image:
\* the current working image when there is one, else the original image.
C20_RefineSource ==
    [][\A p \in Procs : \A um \in BOOLEAN :
          (RefineStep(p, um) /\ RepoGet(sess))
          => last'.sent = IF sess.current_image_url # NoneUrl
                          THEN sess.current_image_url
                          ELSE sess.original_image_url]_vars

\* C21: a generate whose image was produced and uploaded appends one
\* generation_history entry with saved = false to the stored session, then
\* appends one assistant message to the chat history, after one user message
\* exactly when user_message was given, and returns its response.
C21_GenerateAppends ==
    [][\A p \in Procs :
          /\ (proc[p].pc = "gen_call" /\ proc'[p].pc = "gen_chat")
             => /\ Len(sess'.generation_history) = Len(sess.generation_history) + 1
                /\ ~sess'.generation_history[Len(sess'.generation_history)].saved
          /\ (proc[p].pc = "gen_chat" /\ generate_staging_chat(p))
             => /\ chat'.messages =
                       chat.messages \o (IF proc[p].args.um THEN <<"user">> ELSE <<>>)
                                     \o <<"assistant">>
                /\ last'.ret \in {"response", "200"}]_vars

\* the ids of the messages a history holds, in order
MessageIds(history) == [i \in DOMAIN history.messages |-> history.messages[i].message_id]

\* C22: under any interleaving of add_user_message and add_assistant_message
\* calls on one history, no message is removed or reordered, every message
\* whose add returned True is in messages, and total_messages = len(messages).
C22_MessagesAppendOnly ==
    [][/\ IsPrefix(MessageIds(chat), MessageIds(chat'))
       /\ \A id \in acked' : \E i \in DOMAIN chat'.messages : chat'.messages[i].message_id = id
       /\ chat'.total_messages = Len(chat'.messages)]_vars

\* the last k elements of seq, in order
LastK(seq, k) == SubSeq(seq, Len(seq) - k + 1, Len(seq))

\* C25: without include_full_history the context renders exactly the most
\* recent min(last_n_messages, len(messages)) messages in their order, for
\* every last_n_messages >= 0 (none for 0); with it, all messages in order.
C25_ReadModes ==
    context.found
    => LET n == Len(context.of)
           k == IF context.last_n_messages < n THEN context.last_n_messages ELSE n
           expected == IF context.include_full_history THEN context.of
                       ELSE LastK(context.of, k)
       IN context.lines = [i \in DOMAIN expected |-> expected[i].role]

\* C23: session writes are last-write-wins.  When saves and generates on the
\* session interleave, each update_session write leaves in the store exactly
\* the complete document of the request that made it, with nothing of what
\* another request wrote in the meantime merged in.
C23_LastWriteWins ==
    [][\A p \in Procs :
          /\ (proc[p].pc = "gen_call" /\ proc'[p].pc = "gen_chat")
             => sess' = GeneratedSession(proc[p].snap, NextBlob, proc[p].params, proc[p].prompt)
          /\ (SaveStep(p) /\ sess' # sess)
             => sess' = SavedSession(sess, NextBlob)]_vars

\* a save was answered while a generate was in flight, another generate has
\* written in the meantime, and the store holds the document of the
\* generate that wrote last
C23_Witness ==
    /\ last.op \in SaveOps
    /\ \E p, q \in Procs :
         /\ proc[p].pc = "gen_chat"
         /\ proc[q].pc = "gen_chat"
         /\ proc[p].snap # proc[q].snap
         /\ sess = proc[q].snap
         /\ Len(sess.generation_history) = 1

\* C24: the prompt a generate sends to the Generation Client carries the
\* format-preservation clause, with a custom prompt as with a prompt built
\* from parameters, and carries the mask clause exactly when a mask is given.
C24_PromptClauses ==
    \A p \in Procs :
        proc[p].pc = "gen_call"
        => /\ proc[p].prompt.format
           /\ proc[p].prompt.mask <=> proc[p].args.mask

\* C26: once a delete of the session has completed the session document
\* stays absent, also when a generate, refine or save was in flight as the
\* delete ran and makes its update_session write afterwards.
C26_NoResurrection ==
    deleted # "no" => ~RepoGet(sess)

\* C27: when a generate or a refine returns None, whatever the cause (a
\* chat-history write that fails after the session write included), the
\* stored session document is as it was before the call: it does not hold
\* the image the failed call produced.
C27_FailureLeavesSession ==
    [][\A p \in Procs :
          /\ (proc[p].pc = "gen_chat" /\ generate_staging_chat(p)
                /\ last'.ret \in {"None", "500"})
             => ~(RepoGet(sess') /\ sess'.current_image_key = proc[p].new)
          /\ (refine_staging(p) /\ last'.ret = "None") => sess' = sess]_vars

\* C28: a delete of the session leaves the property's own panorama blobs
\* alone: every panoramic image of the property is still in the blob store.
C28_PanoramasKept ==
    \A i \in DOMAIN PropertyPanoramas : get_s3_key_from_url(PropertyPanoramas[i]) \in blobs

\* C29: the has_unsaved_changes flag that get_session_response and
\* get_version_history report is false right after a save of the session has
\* been answered, and true when read after a generate that follows.
C29_UnsavedFlag ==
    [][\A p \in Procs :
          (/\ get_version_history(p) \/ get_session_response(p)
           /\ RepoGet(sess)
           /\ last'.ret = "response")
          => /\ last.op \in SaveOps => ~last'.unsaved
             /\ (last.op = "generate" /\ sess.generation_history # <<>>) => last'.unsaved]_vars

\* the version counters of session s agree with its list of saved versions
VersionsConsistent(s) ==
    /\ s.version = s.last_saved_version
    /\ s.version = Len(s.saved_versions)
    /\ \A i \in DOMAIN s.saved_versions : s.saved_versions[i].version_number = i

\* C30: in every reachable state of a session, under any sequence or
\* interleaving of save, generate, refine and revert, version =
\* last_saved_version = len(saved_versions) and the version_number values of
\* saved_versions are 1..len(saved_versions) in increasing order.  It holds
\* of the stored document, of the copy each request in flight works on, and
\* of what lines 339-372 of save_change make of the stored document.
C30_VersionCounters ==
    /\ RepoGet(sess) => VersionsConsistent(sess)
    /\ \A p \in Procs : ~Free(p) /\ RepoGet(proc[p].snap) => VersionsConsistent(proc[p].snap)
    /\ RepoGet(sess) => VersionsConsistent(SavedSession(sess, NextBlob))

\* a save and a revert have been answered on a session that holds a
\* generated image, while another generate is about to write its copy
C30_Witness ==
    /\ RepoGet(sess)
    /\ sess.generation_history # <<>>
    /\ last.op \in SaveOps \cup {"revert_change"}
    /\ \E p \in Procs : proc[p].pc = "gen_chat" /\ proc[p].snap = sess
    /\ VersionsConsistent(sess)

====
